---- MODULE Spec2Model ----
(***************************************************************************)
(* Model of the LDflex query-context cache of src/src/LdFlexClient.js:     *)
(* the staleness value ldfQryCtxStale, the three slots of gLdfQryCtx       *)
(* (queryEngine, pathFactory, subjectPath), the input-change handlers and  *)
(* the three asynchronous operations execQuery, getSourceSubjects and      *)
(* getSubjectProperties, each split at its "for await" suspension point.   *)
(*                                                                         *)
(* Text values (source, context, URIs) are sequences of tokens, so that    *)
(* trim(), startsWith(), new URL() and JSON.parse() are computed and not   *)
(* assumed.  A nullable JavaScript value is null (the empty tuple) or      *)
(* Some(v) (the one-element tuple holding v).  An engine, a path factory   *)
(* and a path are identified by what they were built from.                 *)
(***************************************************************************)
EXTENDS Integers, Sequences, FiniteSets

\* ------------------------------------------------------------------------
\* Bounds of the model

\* Largest number of identifiers one enumeration of subjects or properties
\* yields before it ends or fails.
MaxYield == 2

\* Largest number of values the result producer yields before it ends or
\* fails where execQuery runs next to the handlers of the form.
MaxResults == 1

\* Largest number of values the result producer yields where the drain of
\* execQuery is studied on its own.
MaxDrain == 3

\* ------------------------------------------------------------------------
\* Program constants

QC_STALE_SOURCE_CHANGED == 4
QC_STALE_CONTEXT_CHANGED == 2
QC_STALE_SUBJECT_CHANGED == 1
QC_VALID == 0

null == << >>
Some(v) == << v >>
Val(o) == o[1]

SP == " "

defaultSource == << "https://ruben.verborgh.org/profile/" >>
otherSource == << "https://example.org/profile" >>

defaultContext == << "{\"@context\":{\"@vocab\":\"http://xmlns.com/foaf/0.1/\"}}" >>
otherContext == << "{\"@vocab\":\"http://schema.org/\"}" >>

dataPathPresets == << << ".interest.label" >>, << ".interest" >>, << ".name" >> >>
defaultLdfDataPath == dataPathPresets[1]

\* The texts the source field can hold: empty, not a URL, a URL with
\* an opaque origin, the default, and another document typed with blanks
\* around it.
SourceInputs ==
    { << >>, << "junk" >>, << "urn:x" >>,
      defaultSource, << SP >> \o otherSource \o << SP >> }

\* The texts the context field can hold: blank, malformed JSON and two
\* well-formed documents.
ContextInputs ==
    { << SP >>, << "{bad" >>, defaultContext, otherContext }

\* ------------------------------------------------------------------------
\* JavaScript primitives the code relies on

\* String.prototype.trim over a token text: drops leading and trailing blanks.
RECURSIVE TrimStart(_)
TrimStart(t) ==
    IF t # << >> /\ Head(t) = SP THEN TrimStart(Tail(t)) ELSE t

RECURSIVE TrimEnd(_)
TrimEnd(t) ==
    IF t # << >> /\ t[Len(t)] = SP THEN TrimEnd(SubSeq(t, 1, Len(t) - 1)) ELSE t

Trim(t) == TrimEnd(TrimStart(t))

\* String.prototype.startsWith
StartsWith(t, prefix) ==
    /\ Len(t) >= Len(prefix)
    /\ SubSeq(t, 1, Len(prefix)) = prefix

\* ToBoolean of a number
Truthy(n) == n # 0

\* a && b on numbers: the first operand when it is falsy, else the second
LogicalAnd(a, b) == IF Truthy(a) THEN b ELSE a

Bit(n, k) == (n \div (2 ^ k)) % 2

\* a ^ b and a | b on the three flag bits
BitXor(a, b) ==
    ((Bit(a, 0) + Bit(b, 0)) % 2)
    + 2 * ((Bit(a, 1) + Bit(b, 1)) % 2)
    + 4 * ((Bit(a, 2) + Bit(b, 2)) % 2)

BitOr(a, b) ==
    (IF Bit(a, 0) + Bit(b, 0) > 0 THEN 1 ELSE 0)
    + (IF Bit(a, 1) + Bit(b, 1) > 0 THEN 2 ELSE 0)
    + (IF Bit(a, 2) + Bit(b, 2) > 0 THEN 4 ELSE 0)

\* new URL(text): the origin of an absolute URL, "null" for a scheme without
\* an origin; any other text does not parse.
UrlOrigin(t) ==
    CASE t = defaultSource -> Some("https://ruben.verborgh.org")
      [] t = otherSource -> Some("https://example.org")
      [] t = << "urn:x" >> -> Some("null")
      [] OTHER -> null

\* JSON.parse(text): the parsed document, or null when the text is not JSON.
\* Blanks around the document are accepted, an empty text is not.
JsonParse(t) ==
    CASE Trim(t) = defaultContext -> Some([vocab |-> "http://xmlns.com/foaf/0.1/"])
      [] Trim(t) = otherContext -> Some([vocab |-> "http://schema.org/"])
      [] OTHER -> null

\* ------------------------------------------------------------------------
\* The external resolver (ldflex, @ldflex/comunica, @rdfjs/data-model)

namedNode(value) == [termType |-> "NamedNode", value |-> value]
blankNode(value) == [termType |-> "BlankNode", value |-> value]
literal(value) == [termType |-> "Literal", value |-> value]

\* toString() of a yielded proxy: the value of its term
toString(term) == term.value

\* new ComunicaEngine(source)
ComunicaEngine(src) == [source |-> src]

\* new PathFactory({ context, queryEngine }); either setting may be absent.
\* The factory keeps the engine it was given.
PathFactory(contextObj, engine) ==
    [context |-> contextObj, queryEngine |-> engine]

\* pathFactory.create({ subject }): the path keeps its factory
CreatePath(factory, subject) ==
    [pathFactory |-> factory, subject |-> subject]

\* The terms the subjects producer of a document can yield: named nodes
\* with an https IRI and a blank node for the default document, a named
\* node whose IRI has another scheme and a blank node for the other one.
SubjectTerms(doc) ==
    CASE doc = defaultSource ->
           { namedNode(<< "http", "s", "://", "ruben.verborgh.org/profile/#me" >>),
             namedNode(<< "http", "s", "://", "ruben.verborgh.org/profile/" >>),
             blankNode(<< "_:", "b0" >>) }
      [] doc = otherSource ->
           { namedNode(<< "http", "x", "://", "example.org/feed" >>),
             blankNode(<< "_:", "b0" >>) }
      [] OTHER -> { }

\* The terms the properties producer of a subject can yield.
PropertyTerms ==
    { namedNode(<< "http", "://", "xmlns.com/foaf/0.1/name" >>),
      namedNode(<< "http", "://", "xmlns.com/foaf/0.1/knows" >>) }

\* The terms a resolved data path can yield.
ResultTerms == { literal("Alice"), literal("Bob") }

\* ------------------------------------------------------------------------
\* State

VARIABLES
    ldfQryCtxStale,       \* useState: the staleness value
    source,               \* useState: text of the source field
    context,              \* useState: text of the context field
    ldfSubject,           \* useState: selected subject, or null
    ldfProperty,          \* useState: selected property, or null
    ldfDataPath,          \* useState: selected data path
    queryResult,          \* useState: displayed result, or null
    status,               \* useState: displayed message, or null
    responsePending,      \* useState: the loader indicator
    gLdfQryCtx,           \* module global: the three chain slots
    grSubjects,           \* module global: subject URIs
    grSubjectProperties,  \* module global: property URIs
    optSubjects,          \* options of the subject select at the last render
    optProperties,        \* options of the property select at the last render
    execTask,             \* execQuery suspended in its for await, or null
    subjectsTask,         \* getSourceSubjects suspended in its for await, or null
    propertiesTask,       \* getSubjectProperties suspended in its for await, or null
    rebuilds,             \* history: constructor calls made by the latest step
    lastExec              \* history: the latest execute that passed validation

reactState ==
    << ldfQryCtxStale, source, context, ldfSubject, ldfProperty, ldfDataPath,
       queryResult, status, responsePending >>

globals == << gLdfQryCtx, grSubjects, grSubjectProperties >>

tasks == << execTask, subjectsTask, propertiesTask >>

vars ==
    << ldfQryCtxStale, source, context, ldfSubject, ldfProperty, ldfDataPath,
       queryResult, status, responsePending, gLdfQryCtx, grSubjects,
       grSubjectProperties, optSubjects, optProperties, execTask, subjectsTask,
       propertiesTask, rebuilds, lastExec >>

\* No operation is suspended.  The component takes a single outstanding
\* operation at a time: an operation that would suspend starts only when no
\* other one is suspended, while the handlers, the buttons and the operations
\* that end before their first await run at any time.
Idle == execTask = null /\ subjectsTask = null /\ propertiesTask = null

NoRebuild == [op |-> "none", engine |-> 0, pathFactory |-> 0, subjectPath |-> 0]

Init ==
    /\ ldfQryCtxStale = QC_STALE_SOURCE_CHANGED
    /\ source = defaultSource
    /\ context = defaultContext
    /\ ldfSubject = null
    /\ ldfProperty = null
    /\ ldfDataPath = defaultLdfDataPath
    /\ queryResult = null
    /\ status = null
    /\ responsePending = FALSE
    /\ gLdfQryCtx = [queryEngine |-> null, pathFactory |-> null, subjectPath |-> null]
    /\ grSubjects = << >>
    /\ grSubjectProperties = << >>
    /\ optSubjects = << >>
    /\ optProperties = << >>
    /\ execTask = null
    /\ subjectsTask = null
    /\ propertiesTask = null
    /\ rebuilds = NoRebuild
    /\ lastExec = null

\* A render happens when a state hook changed; it maps the two global lists
\* to the options of the select controls.
Render ==
    /\ optSubjects' = IF reactState' # reactState THEN grSubjects' ELSE optSubjects
    /\ optProperties' =
         IF reactState' # reactState THEN grSubjectProperties' ELSE optProperties

\* ------------------------------------------------------------------------
\* Synchronous helpers of the component

\* validateSource: the trimmed source, or the message of the error thrown
validateSource ==
    LET src == Trim(source)
    IN  IF source = << >> \/ src = << >>
        THEN [ok |-> FALSE, src |-> src, message |-> "Invalid source URL: Empty string"]
        ELSE IF UrlOrigin(src) = null
        THEN [ok |-> FALSE, src |-> src, message |-> "Invalid source URL: Invalid URL"]
        ELSE IF Val(UrlOrigin(src)) = "null"
        THEN [ok |-> FALSE, src |-> src, message |-> "Invalid source URL: URL parsing error"]
        ELSE [ok |-> TRUE, src |-> src, message |-> ""]

\* The tests of lines 121, 139, 143 and 153: a logical, not a bitwise, AND
MustRebuildEngine(stale) ==
    Truthy(LogicalAnd(stale, QC_STALE_SOURCE_CHANGED))

MustRebuildPathFactory(stale) ==
    Truthy(LogicalAnd(stale, BitOr(QC_STALE_SOURCE_CHANGED, QC_STALE_CONTEXT_CHANGED)))

MustRebuildSubjectPath(stale) ==
    Truthy(LogicalAnd(stale, BitOr(BitOr(QC_STALE_SOURCE_CHANGED, QC_STALE_CONTEXT_CHANGED),
                                   QC_STALE_SUBJECT_CHANGED)))

\* The value refreshLdfQryCtxEngine passes to setLdfQryCtxStale
StaleAfterEngineRefresh(stale) == BitXor(stale, QC_STALE_SOURCE_CHANGED)

\* refreshLdfQryCtxEngine: the staleness value and slots it leaves behind
refreshLdfQryCtxEngine ==
    IF MustRebuildEngine(ldfQryCtxStale)
    THEN [stale |-> StaleAfterEngineRefresh(ldfQryCtxStale),
          ctx |-> [gLdfQryCtx EXCEPT
                     !.queryEngine = Some(ComunicaEngine(source))],
          engine |-> 1, pathFactory |-> 0, subjectPath |-> 0]
    ELSE [stale |-> ldfQryCtxStale, ctx |-> gLdfQryCtx,
          engine |-> 0, pathFactory |-> 0, subjectPath |-> 0]

\* A refresh that forgets to clear the staleness value
StaleAfterRefreshKept == ldfQryCtxStale

\* Line 158: the value refreshLdfQryCtx passes to setLdfQryCtxStale
StaleAfterRefresh == QC_VALID

\* refreshLdfQryCtx: the staleness value and slots it leaves behind.  The
\* caller has validated source, context and ldfSubject.
refreshLdfQryCtx ==
    LET newEngine == MustRebuildEngine(ldfQryCtxStale)
        newFactory == MustRebuildPathFactory(ldfQryCtxStale)
        newPath == MustRebuildSubjectPath(ldfQryCtxStale)
        queryEngine ==
            IF newEngine THEN Some(ComunicaEngine(source))
            ELSE gLdfQryCtx.queryEngine
        pathFactory ==
            IF newFactory
            THEN Some(PathFactory(JsonParse(context), queryEngine))
            ELSE gLdfQryCtx.pathFactory
        subjectPath ==
            IF newPath
            THEN Some(CreatePath(Val(pathFactory), namedNode(Val(ldfSubject))))
            ELSE gLdfQryCtx.subjectPath
    IN  [stale |-> StaleAfterRefresh,
         ctx |-> [queryEngine |-> queryEngine, pathFactory |-> pathFactory,
                  subjectPath |-> subjectPath],
         engine |-> IF newEngine THEN 1 ELSE 0,
         pathFactory |-> IF newFactory THEN 1 ELSE 0,
         subjectPath |-> IF newPath THEN 1 ELSE 0]

\* The test of lines 208 and 272: if (ldfQryCtxStale)
IsStale(stale) == Truthy(stale)

Rebuilt(op, r) ==
    [op |-> op, engine |-> r.engine, pathFactory |-> r.pathFactory,
     subjectPath |-> r.subjectPath]

\* The values a select control can report through onChange: any option but
\* the one it displays (the first option equal to the current value, or the
\* first option when the current value is not among them).
SelectChoices(options, current) ==
    LET hits == { i \in 1..Len(options) : current # null /\ options[i] = Val(current) }
        shown == IF hits = { } THEN 1
                 ELSE CHOOSE i \in hits : \A j \in hits : i <= j
    IN  { options[i] : i \in (1..Len(options)) \ { shown } }

\* ------------------------------------------------------------------------
\* History of the executes

\* lastExec describes the latest execute that passed validation, as long as
\* source, context and ldfSubject have kept the values it ran with, no
\* input-change handler ran and no subject listing replaced the engine since:
\* its outcome ("pending" while suspended, then "ok" or "failed") and, while
\* it is suspended, the outcome of the execute before it.
Forget == lastExec' = null

\* A step that is no input-change event
KeepLastExec ==
    IF << source', context', ldfSubject' >> = << source, context, ldfSubject >>
    THEN UNCHANGED lastExec
    ELSE Forget

PriorOutcome == IF lastExec # null THEN Val(lastExec).outcome ELSE "none"

Started(outcome) == Some([outcome |-> outcome, prior |-> PriorOutcome])

Ended(outcome) ==
    IF lastExec = null THEN null ELSE Some([outcome |-> outcome, prior |-> "none"])

\* ------------------------------------------------------------------------
\* Input-change handlers and buttons

\* A source change that also releases the engine of the previous source
sourceChangeHandlerDroppingEngine ==
    \E value \in SourceInputs \ { source } :
        /\ queryResult' = null
        /\ status' = null
        /\ ldfSubject' = null
        /\ ldfProperty' = null
        /\ grSubjects' = << >>
        /\ grSubjectProperties' = << >>
        /\ source' = value
        /\ ldfQryCtxStale' = QC_STALE_SOURCE_CHANGED
        /\ gLdfQryCtx' = [gLdfQryCtx EXCEPT !.queryEngine = null]
        /\ rebuilds' = NoRebuild
        /\ Forget
        /\ UNCHANGED << context, ldfDataPath, responsePending, tasks >>
        /\ Render

sourceChangeHandler ==
    \E value \in SourceInputs \ { source } :
        /\ queryResult' = null
        /\ status' = null
        /\ ldfSubject' = null
        /\ ldfProperty' = null
        /\ grSubjects' = << >>
        /\ grSubjectProperties' = << >>
        /\ source' = value
        /\ ldfQryCtxStale' = QC_STALE_SOURCE_CHANGED
        /\ rebuilds' = NoRebuild
        /\ Forget
        /\ UNCHANGED << context, ldfDataPath, responsePending, gLdfQryCtx, tasks >>
        /\ Render

contextChangeHandler ==
    \E value \in ContextInputs \ { context } :
        /\ queryResult' = null
        /\ status' = null
        /\ context' = value
        /\ ldfQryCtxStale' = QC_STALE_CONTEXT_CHANGED
        /\ rebuilds' = NoRebuild
        /\ Forget
        /\ UNCHANGED << source, ldfSubject, ldfProperty, ldfDataPath, responsePending,
                        globals, tasks >>
        /\ Render

dataPathChangeHandler ==
    \E i \in 1..Len(dataPathPresets) :
        /\ dataPathPresets[i] # ldfDataPath
        /\ queryResult' = null
        /\ status' = null
        /\ ldfDataPath' = dataPathPresets[i]
        /\ rebuilds' = NoRebuild
        /\ UNCHANGED << ldfQryCtxStale, source, context, ldfSubject, ldfProperty,
                        responsePending, globals, tasks, lastExec >>
        /\ Render

lstSubjectChangeHandler ==
    \E value \in SelectChoices(optSubjects, ldfSubject) :
        /\ queryResult' = null
        /\ status' = null
        /\ ldfSubject' = Some(value)
        /\ ldfQryCtxStale' = QC_STALE_SUBJECT_CHANGED
        /\ rebuilds' = NoRebuild
        /\ Forget
        /\ UNCHANGED << source, context, ldfProperty, ldfDataPath, responsePending,
                        globals, tasks >>
        /\ Render

lstPropertyChangeHandler ==
    \E value \in SelectChoices(optProperties, ldfProperty) :
        /\ ldfProperty' = Some(value)
        /\ queryResult' = null
        /\ status' = null
        /\ rebuilds' = NoRebuild
        /\ UNCHANGED << ldfQryCtxStale, source, context, ldfSubject, ldfDataPath,
                        responsePending, globals, tasks, lastExec >>
        /\ Render

\* The Clear button
clearQueryResultAndStatus ==
    /\ queryResult' = null
    /\ status' = null
    /\ rebuilds' = NoRebuild
    /\ UNCHANGED << ldfQryCtxStale, source, context, ldfSubject, ldfProperty,
                    ldfDataPath, responsePending, globals, tasks, lastExec >>
    /\ Render

\* The Defaults button
resetDefaults ==
    /\ queryResult' = null
    /\ status' = null
    /\ ldfSubject' = null
    /\ ldfProperty' = null
    /\ grSubjects' = << >>
    /\ grSubjectProperties' = << >>
    /\ source' = defaultSource
    /\ context' = defaultContext
    /\ ldfDataPath' = defaultLdfDataPath
    /\ ldfQryCtxStale' = QC_STALE_SOURCE_CHANGED
    /\ rebuilds' = NoRebuild
    /\ Forget
    /\ UNCHANGED << responsePending, gLdfQryCtx, tasks >>
    /\ Render

\* ------------------------------------------------------------------------
\* execQuery

\* A validation that leaves the context unchecked
execQueryValidationNoContext ==
    IF ~validateSource.ok THEN Some(validateSource.message)
    ELSE IF ldfSubject = null \/ Trim(Val(ldfSubject)) = << >>
    THEN Some("Invalid subject URI: No subject selected.")
    ELSE IF ldfDataPath = << >> \/ Trim(ldfDataPath) = << >>
    THEN Some("Invalid LDflex data path: Error: Data path not set")
    ELSE null

\* Lines 167-205: the message of the first validation that fails, or null
execQueryValidation ==
    IF ~validateSource.ok THEN Some(validateSource.message)
    ELSE IF ldfSubject = null \/ Trim(Val(ldfSubject)) = << >>
    THEN Some("Invalid subject URI: No subject selected.")
    ELSE IF context = << >> \/ Trim(context) = << >>
    THEN Some("Invalid context: Error: Empty JSON-LD context")
    ELSE IF JsonParse(context) = null
    THEN Some("Invalid context: SyntaxError")
    ELSE IF ldfDataPath = << >> \/ Trim(ldfDataPath) = << >>
    THEN Some("Invalid LDflex data path: Error: Data path not set")
    ELSE null

\* Lines 208-209: the refresh execQuery runs, if any
execQueryRefresh ==
    IF IsStale(ldfQryCtxStale) THEN refreshLdfQryCtx
    ELSE [stale |-> ldfQryCtxStale, ctx |-> gLdfQryCtx,
          engine |-> 0, pathFactory |-> 0, subjectPath |-> 0]

\* Lines 162-226: from the click up to the first await of the for await loop
execQuery ==
    /\ queryResult' = null
    /\ IF execQueryValidation # null
       THEN /\ status' = execQueryValidation
            /\ rebuilds' = [NoRebuild EXCEPT !.op = "execQuery"]
            /\ UNCHANGED << ldfQryCtxStale, gLdfQryCtx, responsePending, execTask,
                            lastExec >>
       ELSE LET r == execQueryRefresh
            IN  /\ ldfQryCtxStale' = r.stale
                /\ gLdfQryCtx' = r.ctx
                /\ rebuilds' = Rebuilt("execQuery", r)
                /\ IF r.ctx.subjectPath = null
                   THEN \* null.resolve(...) throws; catch and finally run
                        /\ status' = Some("Query execution failed: TypeError")
                        /\ responsePending' = FALSE
                        /\ lastExec' = Started("failed")
                        /\ UNCHANGED execTask
                   ELSE /\ Idle
                        /\ status' = null
                        /\ execTask' = Some([path |-> Val(r.ctx.subjectPath),
                                             expr |-> ldfDataPath,
                                             data |-> << >>, seen |-> << >>])
                        /\ lastExec' = Started("pending")
                        /\ UNCHANGED responsePending
    /\ UNCHANGED << source, context, ldfSubject, ldfProperty, ldfDataPath, grSubjects,
                    grSubjectProperties, subjectsTask, propertiesTask >>
    /\ Render

\* An array in place of the Set: push keeps every value
SetAddKeepingAll(data, v) == Append(data, v)

\* Set.prototype.add on the insertion-ordered set held as a sequence
SetAdd(data, v) ==
    IF \E i \in 1..Len(data) : data[i] = v THEN data ELSE Append(data, v)

\* Lines 229-232: the producer, which yields at most limit values, yields
\* one more.  seen is the sequence of the string forms yielded so far.
execQueryYield(limit) ==
    /\ execTask # null
    /\ Len(Val(execTask).seen) < limit
    /\ \E val \in ResultTerms :
         execTask' = Some([Val(execTask) EXCEPT
                             !.data = SetAdd(@, toString(val)),
                             !.seen = Append(@, toString(val))])
    /\ rebuilds' = NoRebuild
    /\ UNCHANGED << reactState, globals, subjectsTask, propertiesTask, lastExec >>
    /\ Render

execQueryNext == execQueryYield(MaxResults)

\* The same step of a producer that yields up to MaxDrain values
execQueryDrain == execQueryYield(MaxDrain)

\* Lines 234-235 and 241-243: the producer is exhausted
execQueryDone ==
    /\ execTask # null
    /\ queryResult' = Some(Val(execTask).data)
    /\ responsePending' = FALSE
    /\ execTask' = null
    /\ rebuilds' = NoRebuild
    /\ lastExec' = Ended("ok")
    /\ UNCHANGED << ldfQryCtxStale, source, context, ldfSubject, ldfProperty,
                    ldfDataPath, status, globals, subjectsTask, propertiesTask >>
    /\ Render

\* A catch that marks the source stale, as the one of getSourceSubjects does
execQueryCatchInvalidating ==
    /\ execTask # null
    /\ status' = Some("Query execution failed: Error")
    /\ ldfQryCtxStale' = QC_STALE_SOURCE_CHANGED
    /\ responsePending' = FALSE
    /\ execTask' = null
    /\ rebuilds' = NoRebuild
    /\ lastExec' = Ended("failed")
    /\ UNCHANGED << source, context, ldfSubject, ldfProperty, ldfDataPath,
                    queryResult, globals, subjectsTask, propertiesTask >>
    /\ Render

\* Lines 237-243: the producer rejects
execQueryCatch ==
    /\ execTask # null
    /\ status' = Some("Query execution failed: Error")
    /\ responsePending' = FALSE
    /\ execTask' = null
    /\ rebuilds' = NoRebuild
    /\ lastExec' = Ended("failed")
    /\ UNCHANGED << ldfQryCtxStale, source, context, ldfSubject, ldfProperty,
                    ldfDataPath, queryResult, globals, subjectsTask, propertiesTask >>
    /\ Render

\* ------------------------------------------------------------------------
\* getSourceSubjects

\* Lines 272-273: the refresh getSourceSubjects runs, if any
getSourceSubjectsRefresh ==
    IF IsStale(ldfQryCtxStale) THEN refreshLdfQryCtxEngine
    ELSE [stale |-> ldfQryCtxStale, ctx |-> gLdfQryCtx,
          engine |-> 0, pathFactory |-> 0, subjectPath |-> 0]

\* Lines 262-283: from the click up to the first await of the for await loop
getSourceSubjects ==
    /\ queryResult' = null
    /\ grSubjects' = << >>
    /\ IF ~validateSource.ok
       THEN \* validateSource throws; catch and finally run
            /\ status' = Some(validateSource.message)
            /\ ldfQryCtxStale' = QC_STALE_SOURCE_CHANGED
            /\ ldfSubject' = null
            /\ responsePending' = FALSE
            /\ rebuilds' = [NoRebuild EXCEPT !.op = "getSourceSubjects"]
            /\ UNCHANGED << gLdfQryCtx, subjectsTask >>
            /\ UNCHANGED << source, context >>
            /\ KeepLastExec
       ELSE LET r == getSourceSubjectsRefresh
            IN  /\ Idle
                /\ status' = null
                /\ ldfQryCtxStale' = r.stale
                /\ gLdfQryCtx' = r.ctx
                /\ rebuilds' = Rebuilt("getSourceSubjects", r)
                /\ responsePending' = TRUE
                /\ subjectsTask' = Some([src |-> validateSource.src,
                                         engine |-> r.ctx.queryEngine,
                                         yielded |-> { }])
                /\ UNCHANGED << source, context, ldfSubject >>
                /\ IF r.engine > 0 THEN Forget ELSE UNCHANGED lastExec
    /\ UNCHANGED << ldfProperty, ldfDataPath, grSubjectProperties, execTask,
                    propertiesTask >>
    /\ Render

\* The document a suspended enumeration reads
TaskDocument(task) ==
    IF task.engine = null THEN << >> ELSE Trim(Val(task.engine).source)

\* Lines 283-288: the producer yields one more subject.  The subjects query
\* is a SELECT DISTINCT: no term comes twice in one enumeration.
getSourceSubjectsNext ==
    /\ subjectsTask # null
    /\ Cardinality(Val(subjectsTask).yielded) < MaxYield
    /\ \E subject \in SubjectTerms(TaskDocument(Val(subjectsTask)))
                        \ Val(subjectsTask).yielded :
         LET subjectUri == toString(subject)
         IN  /\ grSubjects' = IF StartsWith(subjectUri, << "http" >>)
                              THEN Append(grSubjects, subjectUri)
                              ELSE grSubjects
             /\ subjectsTask' =
                  Some([Val(subjectsTask) EXCEPT !.yielded = @ \cup { subject }])
    /\ rebuilds' = NoRebuild
    /\ UNCHANGED << reactState, gLdfQryCtx, grSubjectProperties, execTask,
                    propertiesTask, lastExec >>
    /\ Render

\* A completion without the finally block: the loader indicator stays on
getSourceSubjectsDoneNoFinally ==
    /\ subjectsTask # null
    /\ ldfSubject' = IF Len(grSubjects) # 0 THEN Some(grSubjects[1]) ELSE ldfSubject
    /\ subjectsTask' = null
    /\ rebuilds' = NoRebuild
    /\ UNCHANGED << ldfQryCtxStale, source, context, ldfProperty, ldfDataPath,
                    queryResult, status, responsePending, globals, execTask,
                    propertiesTask >>
    /\ KeepLastExec
    /\ Render

\* Lines 291-292 and 299-301: the producer is exhausted
getSourceSubjectsDone ==
    /\ subjectsTask # null
    /\ ldfSubject' = IF Len(grSubjects) # 0 THEN Some(grSubjects[1]) ELSE ldfSubject
    /\ responsePending' = FALSE
    /\ subjectsTask' = null
    /\ rebuilds' = NoRebuild
    /\ UNCHANGED << ldfQryCtxStale, source, context, ldfProperty, ldfDataPath,
                    queryResult, status, globals, execTask, propertiesTask >>
    /\ KeepLastExec
    /\ Render

\* A catch that reports the error and leaves the staleness value and the
\* subject alone, as the one of execQuery does
getSourceSubjectsCatchKeeping ==
    /\ subjectsTask # null
    /\ status' = Some("Error: subjects")
    /\ responsePending' = FALSE
    /\ subjectsTask' = null
    /\ rebuilds' = NoRebuild
    /\ UNCHANGED << ldfQryCtxStale, source, context, ldfSubject, ldfProperty,
                    ldfDataPath, queryResult, globals, execTask, propertiesTask,
                    lastExec >>
    /\ Render

\* Lines 294-301: the producer rejects
getSourceSubjectsCatch ==
    /\ subjectsTask # null
    /\ status' = Some("Error: subjects")
    /\ ldfQryCtxStale' = QC_STALE_SOURCE_CHANGED
    /\ ldfSubject' = null
    /\ responsePending' = FALSE
    /\ subjectsTask' = null
    /\ rebuilds' = NoRebuild
    /\ UNCHANGED << source, context, ldfProperty, ldfDataPath, queryResult, globals,
                    execTask, propertiesTask >>
    /\ KeepLastExec
    /\ Render

\* ------------------------------------------------------------------------
\* getSubjectProperties

\* Lines 312-318: the message of the error thrown before the enumeration
getSubjectPropertiesError ==
    IF ldfSubject = null \/ Trim(Val(ldfSubject)) = << >>
    THEN Some("Error: No subject selected.")
    ELSE IF gLdfQryCtx.queryEngine = null
    THEN Some("Error: Query engine not instantiated.")
    ELSE null

\* Lines 304-328: from the click up to the first await of the for await loop
getSubjectProperties ==
    /\ grSubjectProperties' = << >>
    /\ IF getSubjectPropertiesError # null
       THEN /\ status' = getSubjectPropertiesError
            /\ ldfProperty' = null
            /\ responsePending' = FALSE
            /\ UNCHANGED propertiesTask
       ELSE /\ Idle
            /\ responsePending' = TRUE
            /\ propertiesTask' = Some([subject |-> Val(ldfSubject),
                                       engine |-> gLdfQryCtx.queryEngine,
                                       yielded |-> { }])
            /\ UNCHANGED << status, ldfProperty >>
    /\ rebuilds' = NoRebuild
    /\ UNCHANGED << ldfQryCtxStale, source, context, ldfSubject, ldfDataPath,
                    queryResult, gLdfQryCtx, grSubjects, execTask, subjectsTask,
                    lastExec >>
    /\ Render

\* Lines 328-331: the producer yields one more property.  The properties
\* query is a SELECT DISTINCT too.
getSubjectPropertiesNext ==
    /\ propertiesTask # null
    /\ Cardinality(Val(propertiesTask).yielded) < MaxYield
    /\ \E property \in PropertyTerms \ Val(propertiesTask).yielded :
         /\ grSubjectProperties' = Append(grSubjectProperties, toString(property))
         /\ propertiesTask' =
              Some([Val(propertiesTask) EXCEPT !.yielded = @ \cup { property }])
    /\ rebuilds' = NoRebuild
    /\ UNCHANGED << reactState, gLdfQryCtx, grSubjects, execTask, subjectsTask,
                    lastExec >>
    /\ Render

\* Lines 334-335 and 341-343: the producer is exhausted
getSubjectPropertiesDone ==
    /\ propertiesTask # null
    /\ ldfProperty' = IF Len(grSubjectProperties) # 0
                      THEN Some(grSubjectProperties[1]) ELSE ldfProperty
    /\ responsePending' = FALSE
    /\ propertiesTask' = null
    /\ rebuilds' = NoRebuild
    /\ UNCHANGED << ldfQryCtxStale, source, context, ldfSubject, ldfDataPath,
                    queryResult, status, globals, execTask, subjectsTask, lastExec >>
    /\ Render

\* A catch that marks the source stale and clears the subject, as the one
\* of getSourceSubjects does
getSubjectPropertiesCatchInvalidating ==
    /\ propertiesTask # null
    /\ status' = Some("Error: properties")
    /\ ldfQryCtxStale' = QC_STALE_SOURCE_CHANGED
    /\ ldfSubject' = null
    /\ ldfProperty' = null
    /\ responsePending' = FALSE
    /\ propertiesTask' = null
    /\ rebuilds' = NoRebuild
    /\ Forget
    /\ UNCHANGED << source, context, ldfDataPath, queryResult, globals, execTask,
                    subjectsTask >>
    /\ Render

\* Lines 337-343: the producer rejects
getSubjectPropertiesCatch ==
    /\ propertiesTask # null
    /\ status' = Some("Error: properties")
    /\ ldfProperty' = null
    /\ responsePending' = FALSE
    /\ propertiesTask' = null
    /\ rebuilds' = NoRebuild
    /\ UNCHANGED << ldfQryCtxStale, source, context, ldfSubject, ldfDataPath,
                    queryResult, globals, execTask, subjectsTask, lastExec >>
    /\ Render

\* ------------------------------------------------------------------------
\* Specification

Next ==
    \/ sourceChangeHandler
    \/ contextChangeHandler
    \/ dataPathChangeHandler
    \/ lstSubjectChangeHandler
    \/ lstPropertyChangeHandler
    \/ clearQueryResultAndStatus
    \/ resetDefaults
    \/ execQuery
    \/ execQueryNext
    \/ execQueryDone
    \/ execQueryCatch
    \/ getSourceSubjects
    \/ getSourceSubjectsNext
    \/ getSourceSubjectsDone
    \/ getSourceSubjectsCatch
    \/ getSubjectProperties
    \/ getSubjectPropertiesNext
    \/ getSubjectPropertiesDone
    \/ getSubjectPropertiesCatch

Spec == Init /\ [][Next]_vars

\* The query-context cache on its own: every operation that reads or writes
\* the staleness value, the chain slots, the inputs or the subjects list.
\* The property listing touches none of them.
NextChain ==
    \/ sourceChangeHandler
    \/ contextChangeHandler
    \/ dataPathChangeHandler
    \/ lstSubjectChangeHandler
    \/ clearQueryResultAndStatus
    \/ resetDefaults
    \/ execQuery
    \/ execQueryNext
    \/ execQueryDone
    \/ execQueryCatch
    \/ getSourceSubjects
    \/ getSourceSubjectsNext
    \/ getSourceSubjectsDone
    \/ getSourceSubjectsCatch

SpecChain == Init /\ [][NextChain]_vars

\* The three operations on their own, on the default source and context:
\* the three buttons, the steps of their producers and the two select
\* controls the listings fill.  The result producer yields up to MaxDrain
\* values.
NextOps ==
    \/ lstSubjectChangeHandler
    \/ lstPropertyChangeHandler
    \/ execQuery
    \/ execQueryDrain
    \/ execQueryDone
    \/ execQueryCatch
    \/ getSourceSubjects
    \/ getSourceSubjectsNext
    \/ getSourceSubjectsDone
    \/ getSourceSubjectsCatch
    \/ getSubjectProperties
    \/ getSubjectPropertiesNext
    \/ getSubjectPropertiesDone
    \/ getSubjectPropertiesCatch

SpecOps == Init /\ [][NextOps]_vars

\* The external producers are scheduled fairly: a producer that is being
\* drained eventually ends or fails, so the continuation after the for await
\* loop, or the catch block, eventually runs.
FairOps ==
    /\ SpecOps
    /\ WF_vars(execQueryDone \/ execQueryCatch)
    /\ WF_vars(getSourceSubjectsDone \/ getSourceSubjectsCatch)
    /\ WF_vars(getSubjectPropertiesDone \/ getSubjectPropertiesCatch)

\* ------------------------------------------------------------------------
\* Vocabulary of the properties

SourceChanged(stale) == Bit(stale, 2) = 1
ContextChanged(stale) == Bit(stale, 1) = 1
SubjectChanged(stale) == Bit(stale, 0) = 1

NoRebuilds(r) == r.engine = 0 /\ r.pathFactory = 0 /\ r.subjectPath = 0

\* The inputs of execute do not pass validation (stated on the inputs, not
\* through execQueryValidation).
ValidationFails ==
    \/ Trim(source) = << >>
    \/ UrlOrigin(Trim(source)) = null
    \/ UrlOrigin(Trim(source)) = Some("null")
    \/ ldfSubject = null
    \/ Trim(Val(ldfSubject)) = << >>
    \/ Trim(context) = << >>
    \/ JsonParse(context) = null
    \/ Trim(ldfDataPath) = << >>

\* What each slot holds when it was built from the present inputs
EngineOfSource == Some(ComunicaEngine(source))
FactoryOfContext == Some(PathFactory(JsonParse(context), EngineOfSource))
PathOfSubject == Some(CreatePath(Val(FactoryOfContext), namedNode(Val(ldfSubject))))

ChainBuilt ==
    /\ gLdfQryCtx.queryEngine # null
    /\ gLdfQryCtx.pathFactory # null
    /\ gLdfQryCtx.subjectPath # null

\* The links of the chain: the factory in its slot was built from the engine
\* in its slot, the path in its slot from the factory in its slot.
ChainLinked ==
    /\ Val(gLdfQryCtx.pathFactory).queryEngine = gLdfQryCtx.queryEngine
    /\ Val(gLdfQryCtx.subjectPath).pathFactory = Val(gLdfQryCtx.pathFactory)

\* ------------------------------------------------------------------------
\* Properties

\* C1: in every reachable state whose staleness value is QC_VALID, the engine
\* slot was built from the current source, the pathFactory slot from the
\* current context and, when a subject is selected, the subjectPath slot from
\* the current subject.
C1_ValidMeansRebuilt ==
    ldfQryCtxStale = QC_VALID =>
        /\ gLdfQryCtx.queryEngine # null
        /\ Val(gLdfQryCtx.queryEngine).source = source
        /\ gLdfQryCtx.pathFactory # null
        /\ Val(gLdfQryCtx.pathFactory).context = JsonParse(context)
        /\ ldfSubject # null =>
             /\ gLdfQryCtx.subjectPath # null
             /\ Val(gLdfQryCtx.subjectPath).subject = namedNode(Val(ldfSubject))

\* C2: an execute with valid inputs on a chain whose subjectPath slot was
\* never filled constructs the engine once, the path factory once and the
\* path once, and resolves the data path against the path built from the
\* present inputs instead of reporting an error.
C2_FirstExecuteBuildsChain ==
    [][ (execQuery /\ ~ValidationFails /\ gLdfQryCtx.subjectPath = null) =>
          /\ rebuilds' = [op |-> "execQuery", engine |-> 1, pathFactory |-> 1,
                          subjectPath |-> 1]
          /\ status' = null
          /\ execTask' # null
          /\ Val(execTask').path = Val(PathOfSubject)
      ]_vars

\* C3: an execute that follows a successful execute, with source, context
\* and subject as they were and no input-change event in between, calls no
\* constructor and leaves the three slots as they are.
C3_SecondExecuteRebuildsNothing ==
    [][ (lastExec # null /\ Val(lastExec).outcome = "ok" /\ execQuery) =>
          /\ NoRebuilds(rebuilds')
          /\ gLdfQryCtx' = gLdfQryCtx
      ]_vars

\* C3 witness: a second execute has started after a successful one and has
\* rebuilt nothing.
C3_Witness ==
    /\ lastExec = Some([outcome |-> "pending", prior |-> "ok"])
    /\ rebuilds = [NoRebuild EXCEPT !.op = "execQuery"]
    /\ execTask # null
    /\ ChainBuilt

\* C4: with the chain built and current but for the context, and the context
\* flag the only one set, an execute rebuilds the path factory and the path
\* and not the engine.
C4_ContextChangeKeepsEngine ==
    [][ ( /\ execQuery
          /\ ~ValidationFails
          /\ ldfQryCtxStale = QC_STALE_CONTEXT_CHANGED
          /\ ChainBuilt
          /\ ChainLinked
          /\ gLdfQryCtx.queryEngine = EngineOfSource
          /\ Val(gLdfQryCtx.subjectPath).subject = namedNode(Val(ldfSubject)) ) =>
          rebuilds' = [op |-> "execQuery", engine |-> 0, pathFactory |-> 1,
                       subjectPath |-> 1]
      ]_vars

\* C5: with the chain built and current but for the subject, and the subject
\* flag the only one set, an execute rebuilds the path alone: the engine is
\* rebuilt iff the source flag is set, the path factory iff the source or the
\* context flag is set.
C5_SubjectChangeRebuildsPathOnly ==
    [][ ( /\ execQuery
          /\ ~ValidationFails
          /\ ldfQryCtxStale = QC_STALE_SUBJECT_CHANGED
          /\ ChainBuilt
          /\ ChainLinked
          /\ gLdfQryCtx.pathFactory = FactoryOfContext ) =>
          /\ rebuilds'.engine = (IF SourceChanged(ldfQryCtxStale) THEN 1 ELSE 0)
          /\ rebuilds'.pathFactory =
               (IF SourceChanged(ldfQryCtxStale) \/ ContextChanged(ldfQryCtxStale)
                THEN 1 ELSE 0)
          /\ rebuilds'.subjectPath = 1
      ]_vars

\* C6: each input-change handler sets its own flag and leaves the other two
\* flags as they were.
C6_HandlersSetOwnFlagOnly ==
    [][ /\ sourceChangeHandler =>
             /\ SourceChanged(ldfQryCtxStale')
             /\ ContextChanged(ldfQryCtxStale') = ContextChanged(ldfQryCtxStale)
             /\ SubjectChanged(ldfQryCtxStale') = SubjectChanged(ldfQryCtxStale)
        /\ contextChangeHandler =>
             /\ ContextChanged(ldfQryCtxStale')
             /\ SourceChanged(ldfQryCtxStale') = SourceChanged(ldfQryCtxStale)
             /\ SubjectChanged(ldfQryCtxStale') = SubjectChanged(ldfQryCtxStale)
        /\ lstSubjectChangeHandler =>
             /\ SubjectChanged(ldfQryCtxStale')
             /\ SourceChanged(ldfQryCtxStale') = SourceChanged(ldfQryCtxStale)
             /\ ContextChanged(ldfQryCtxStale') = ContextChanged(ldfQryCtxStale)
      ]_vars

\* C7: the engine refresh of a subject listing replaces at most the engine
\* slot and ends with the source flag clear and the context and subject
\* flags as they were before it.
C7_EngineRefreshClearsSourceFlagOnly ==
    [][ (getSourceSubjects /\ validateSource.ok) =>
          /\ gLdfQryCtx'.pathFactory = gLdfQryCtx.pathFactory
          /\ gLdfQryCtx'.subjectPath = gLdfQryCtx.subjectPath
          /\ ~SourceChanged(ldfQryCtxStale')
          /\ ContextChanged(ldfQryCtxStale') = ContextChanged(ldfQryCtxStale)
          /\ SubjectChanged(ldfQryCtxStale') = SubjectChanged(ldfQryCtxStale)
      ]_vars

\* C8: in every reachable state whose staleness value is QC_VALID and whose
\* three slots are filled, the path factory was built from the engine in the
\* engine slot and the path from the path factory in the pathFactory slot.
C8_ValidChainIsLinked ==
    (ldfQryCtxStale = QC_VALID /\ ChainBuilt) => ChainLinked

\* C9: an execute whose inputs fail validation calls no constructor, leaves
\* the three slots and the staleness value as they were, starts no
\* resolution and reports the failure in status.  (execQuery implies the
\* first conjunct, which is there to be tested first.)
C9_ValidationFailureChangesNothing ==
    [][ (rebuilds'.op = "execQuery" /\ ValidationFails /\ execQuery) =>
          /\ NoRebuilds(rebuilds')
          /\ gLdfQryCtx' = gLdfQryCtx
          /\ ldfQryCtxStale' = ldfQryCtxStale
          /\ execTask' = execTask
          /\ queryResult' = null
          /\ status' # null
      ]_vars

\* C9 witness: an execute has just failed on a malformed context while the
\* context flag was set and the chain was built.
C9_Witness ==
    /\ rebuilds.op = "execQuery"
    /\ status = Some("Invalid context: SyntaxError")
    /\ ldfQryCtxStale = QC_STALE_CONTEXT_CHANGED
    /\ ChainBuilt

\* C10: a failure of the resolution or of the drain of an execute leaves
\* the staleness value and the slots as they were, and the execute that
\* retries it, with source, context and subject as they were and no
\* input-change event in between, calls no constructor and works on the
\* slots as they are.
C10_FailedExecuteKeepsChain ==
    [][ /\ execQueryCatch =>
             /\ ldfQryCtxStale' = ldfQryCtxStale
             /\ gLdfQryCtx' = gLdfQryCtx
        /\ (lastExec # null /\ Val(lastExec).outcome = "failed" /\ execQuery) =>
             /\ NoRebuilds(rebuilds')
             /\ gLdfQryCtx' = gLdfQryCtx
             /\ ldfQryCtxStale' = ldfQryCtxStale
      ]_vars

\* C10 witness: an execute retried after a failed drain is suspended on the
\* path that was in the slot, having rebuilt nothing.
C10_Witness ==
    /\ lastExec = Some([outcome |-> "pending", prior |-> "failed"])
    /\ rebuilds = [NoRebuild EXCEPT !.op = "execQuery"]
    /\ execTask # null
    /\ Some(Val(execTask).path) = gLdfQryCtx.subjectPath

\* The index of the first occurrence of v in the sequence s
FirstIndex(s, v) ==
    CHOOSE i \in 1..Len(s) : s[i] = v /\ \A j \in 1..(i - 1) : s[j] # v

\* data is the sequence of the distinct values of seen in the order of their
\* first occurrences
DistinctInOrder(data, seen) ==
    /\ \A i, j \in 1..Len(data) : i # j => data[i] # data[j]
    /\ { data[i] : i \in 1..Len(data) } = { seen[i] : i \in 1..Len(seen) }
    /\ \A i, j \in 1..Len(data) :
         i < j => FirstIndex(seen, data[i]) < FirstIndex(seen, data[j])

\* C11: the result an execute publishes is the sequence of the distinct
\* string forms its producer yielded, in the order of their first
\* occurrences: no duplicate, every yielded string, insertion order.
C11_ResultIsDistinctInOrder ==
    [][ (execTask # null /\ execQueryDone) =>
          /\ queryResult' # null
          /\ DistinctInOrder(Val(queryResult'), Val(execTask).seen)
      ]_vars

\* C11 witness: the producer has yielded "Alice", "Bob", "Alice" and the
\* drain holds "Alice", "Bob".
C11_Witness ==
    /\ execTask # null
    /\ Val(execTask).seen = << "Alice", "Bob", "Alice" >>
    /\ Val(execTask).data = << "Alice", "Bob" >>

\* The text begins with the scheme http:// or https://
IsHttpUri(t) ==
    \/ StartsWith(t, << "http", "://" >>)
    \/ StartsWith(t, << "http", "s", "://" >>)

\* C12: a subject listing appends to the subjects list, in the order of the
\* producer, exactly the yielded identifiers that begin with http:// or
\* https://, and discards every other identifier.
C12_SubjectsAreHttpUris ==
    [][ ( /\ subjectsTask # null
          /\ subjectsTask' # null
          /\ Val(subjectsTask').yielded # Val(subjectsTask).yielded
          /\ getSourceSubjectsNext ) =>
          LET subject == CHOOSE s \in Val(subjectsTask').yielded
                                        \ Val(subjectsTask).yielded : TRUE
          IN  grSubjects' = IF IsHttpUri(toString(subject))
                            THEN Append(grSubjects, toString(subject))
                            ELSE grSubjects
      ]_vars

\* The source does not pass validateSource (stated on the input)
SourceFails ==
    \/ Trim(source) = << >>
    \/ UrlOrigin(Trim(source)) = null
    \/ UrlOrigin(Trim(source)) = Some("null")

\* C13: a subject listing that fails, on the validation of the source or
\* while its producer is drained, ends with the source flag set and no
\* subject selected, so that the next full refresh rebuilds the engine.
C13_ListingFailureMarksSource ==
    [][ ( \/ subjectsTask # null /\ getSourceSubjectsCatch
          \/ rebuilds'.op = "getSourceSubjects" /\ SourceFails /\ getSourceSubjects ) =>
          /\ SourceChanged(ldfQryCtxStale')
          /\ MustRebuildEngine(ldfQryCtxStale')
          /\ ldfSubject' = null
      ]_vars

\* C13 witness: a listing started on a built chain has failed while it was
\* drained, after it had pushed a subject.
C13_Witness ==
    /\ status = Some("Error: subjects")
    /\ subjectsTask = null
    /\ ldfQryCtxStale = QC_STALE_SOURCE_CHANGED
    /\ ldfSubject = null
    /\ grSubjects # << >>
    /\ ChainBuilt

\* C14: a subject or property listing that fails, before or after its
\* producer has yielded identifiers, leaves its list empty and reports the
\* error in status.
C14_FailedListingIsEmpty ==
    [][ /\ ( \/ subjectsTask # null /\ getSourceSubjectsCatch
             \/ rebuilds'.op = "getSourceSubjects" /\ SourceFails /\ getSourceSubjects ) =>
               /\ grSubjects' = << >>
               /\ status' # null
        /\ ( \/ propertiesTask # null /\ getSubjectPropertiesCatch
             \/ getSubjectPropertiesError # null /\ getSubjectProperties ) =>
               /\ grSubjectProperties' = << >>
               /\ status' # null
      ]_vars

\* C15: a property listing that fails, because no subject is selected, no
\* engine is instantiated or its producer rejects, clears the selected
\* property and leaves the selected subject, the source, the staleness
\* value and the three slots as they were.
C15_PropertyFailureClearsPropertyOnly ==
    [][ ( \/ propertiesTask # null /\ getSubjectPropertiesCatch
          \/ /\ \/ ldfSubject = null
                 \/ Trim(Val(ldfSubject)) = << >>
                 \/ gLdfQryCtx.queryEngine = null
             /\ getSubjectProperties ) =>
          /\ ldfProperty' = null
          /\ ldfSubject' = ldfSubject
          /\ source' = source
          /\ ldfQryCtxStale' = ldfQryCtxStale
          /\ gLdfQryCtx' = gLdfQryCtx
      ]_vars

\* C15 witness: a property listing on a built chain with a pending subject
\* change has failed while it was drained.
C15_Witness ==
    /\ status = Some("Error: properties")
    /\ propertiesTask = null
    /\ ldfProperty = null
    /\ ldfSubject # null
    /\ grSubjectProperties # << >>
    /\ ldfQryCtxStale = QC_STALE_SUBJECT_CHANGED
    /\ ChainBuilt

\* C16: with producers that end or fail, every execute, subject listing and
\* property listing that is suspended in its drain eventually completes:
\* the execute with a published result or a status message, a listing with
\* a status message or with its list replaced and the first entry of a
\* non-empty list selected, each with the loader indicator off.
C16_OperationsComplete ==
    /\ (execTask # null) ~>
          ( /\ execTask = null
            /\ responsePending = FALSE
            /\ (queryResult # null \/ status # null) )
    /\ (subjectsTask # null) ~>
          ( /\ subjectsTask = null
            /\ responsePending = FALSE
            /\ \/ status # null
               \/ grSubjects = << >>
               \/ ldfSubject = Some(grSubjects[1]) )
    /\ (propertiesTask # null) ~>
          ( /\ propertiesTask = null
            /\ responsePending = FALSE
            /\ \/ status # null
               \/ grSubjectProperties = << >>
               \/ ldfProperty = Some(grSubjectProperties[1]) )

\* C16 witness: an execute whose producer yielded three values has
\* completed with a published result and the loader indicator off.
C16_Witness ==
    /\ execTask = null
    /\ lastExec = Some([outcome |-> "ok", prior |-> "none"])
    /\ queryResult = Some(<< "Bob", "Alice" >>)
    /\ status = null
    /\ responsePending = FALSE

\* C17: in every reachable state in which a subject is selected the engine
\* slot is filled, so a property listing started there does not fail with
\* "Query engine not instantiated".
C17_SubjectImpliesEngine ==
    /\ ldfSubject # null => gLdfQryCtx.queryEngine # null
    /\ getSubjectPropertiesError # Some("Error: Query engine not instantiated.")

\* C17 witness: a subject is selected while the engine in the slot is the
\* one of a source the form no longer holds.
C17_Witness ==
    /\ ldfSubject # null
    /\ gLdfQryCtx.queryEngine # null
    /\ Val(gLdfQryCtx.queryEngine).source # source
    /\ Idle

\* The subjects list contains the text v
InSubjects(v) == \E i \in 1..Len(grSubjects) : grSubjects[i] = v

\* C18: in every reachable state the selected subject is null or an entry
\* of the subjects list.  Stated for the states in which no subject listing
\* is suspended, where the list is not being refilled.
C18_SubjectIsListed ==
    subjectsTask = null => (ldfSubject = null \/ InSubjects(Val(ldfSubject)))

\* C19: a displayed query result was computed from the source, context,
\* subject and data path the form holds: every input-change handler clears
\* the result, and an execute publishes its result only if the data path
\* is the one it resolved and source, context and subject have not changed
\* since it started (lastExec is forgotten when one of them changes).
C19_ResultMatchesInputs ==
    [][ /\ ( \/ sourceChangeHandler
             \/ contextChangeHandler
             \/ lstSubjectChangeHandler
             \/ dataPathChangeHandler ) => queryResult' = null
        /\ (execTask # null /\ queryResult' # null /\ execQueryDone) =>
             /\ Val(execTask).expr = ldfDataPath
             /\ lastExec # null
      ]_vars

\* The identifiers the subjects producer of the document of the source
\* field can yield
SourceSubjectUris == { toString(s) : s \in SubjectTerms(Trim(source)) }

\* C20: the subjects list and the selected subject hold identifiers
\* enumerated from the source the form holds, never from a source entered
\* before it.
C20_SubjectsOfCurrentSource ==
    /\ \A i \in 1..Len(grSubjects) : grSubjects[i] \in SourceSubjectUris
    /\ ldfSubject # null => Val(ldfSubject) \in SourceSubjectUris

====
